---- MODULE Spec2Model ----
(***************************************************************************)
(* Model of rd-agent's side.rs: the SideRunner reconciler (sysloads and    *)
(* sideloads), the bounded-retry directory teardown and the Balloon.       *)
(* Strings that the code inspects character by character (workload names,  *)
(* paths, unit names) are sequences of one-character strings.              *)
(***************************************************************************)
EXTENDS Integers, Sequences, FiniteSets, TLC

\* ------------------------------------------------------------------ bounds
\* Records created over one behaviour (sysloads and sideloads together).
MaxCreates == 2
\* Entries of one target mapping.
MaxTarget == 2
\* Seconds the clock advances in one Tick.
TickStep == 5
\* Successful balloon unit starts over one behaviour.
MaxStarts == 3
\* Largest balloon size requested.
MaxSize == 2

\* --------------------------------------------------------- program constants
\* Duration::from_secs(10)
Budget == 10

\* The unit-name prefixes are rd_agent_intf's; only their being distinct and
\* fixed matters here.
SYSLOAD_SVC_PREFIX == <<"r", "d", "-", "s", "y", "s", "l", "o", "a", "d", "-">>
SIDELOAD_SVC_PREFIX == <<"r", "d", "-", "s", "i", "d", "e", "l", "o", "a", "d", "-">>
DotService == <<".", "s", "e", "r", "v", "i", "c", "e">>
DotJson == <<".", "j", "s", "o", "n">>
Slash == <<"/">>

\* cfg.sys_scr_path, cfg.side_scr_path, cfg.sideloader_daemon_jobs_path
SysScrPath == <<"/", "y">>
SideScrPath == <<"/", "d">>
JobsPath == <<"/", "j">>

\* ------------------------------------------------------------ pure functions
Lower == {"a", "b", "c", "d", "e", "f", "g", "h", "i", "j", "k", "l", "m",
          "n", "o", "p", "q", "r", "s", "t", "u", "v", "w", "x", "y", "z"}
Upper == {"A", "B", "C", "D", "E", "F", "G", "H", "I", "J", "K", "L", "M",
          "N", "O", "P", "Q", "R", "S", "T", "U", "V", "W", "X", "Y", "Z"}
Digit == {"0", "1", "2", "3", "4", "5", "6", "7", "8", "9"}

\* The character class [a-zA-Z0-9_-] of SIDE_NAME_RE.
NameClass == Lower \cup Upper \cup Digit \cup {"_", "-"}

\* Faulty variant: the pattern with * in place of +.
SideNameReStar(name) == \A i \in 1..Len(name) : name[i] \in NameClass
\* SIDE_NAME_RE.is_match(name) for "^[a-zA-Z0-9_-]+$": one or more characters,
\* every one of the class.
SIDE_NAME_RE(name) ==
    Len(name) >= 1 /\ \A i \in 1..Len(name) : name[i] \in NameClass

sysload_svc_name(name) == SYSLOAD_SVC_PREFIX \o name \o DotService
sideload_svc_name(name) == SIDELOAD_SVC_PREFIX \o name \o DotService

\* format!("{}/{}", dir, name)
ScrPathOf(dir, name) == dir \o Slash \o name
\* format!("{}/{}.json", jobs_path, name)
JobPathOf(name) == JobsPath \o Slash \o name \o DotJson

\* ------------------------------------------------------------------- inputs
NameA == <<"a">>
NameB == <<"b", "_", "2">>
NameBad == <<"b", "a", "d", " ", "n", "a", "m", "e", "!">>
NameEmpty == <<>>
Names == {NameA, NameB, NameBad, NameEmpty}

\* The catalog (SideloadDefs.defs) the caller supplies: "burn" resolves,
\* "nocmd" has an empty argument vector, "nobin" names a binary find_bin
\* does not find; "ghost" is an id the catalog does not hold.
Defs ==
    [x \in {"burn", "nocmd", "nobin"} |->
        CASE x = "burn" -> [args |-> <<"burn-cpus.sh">>, frozen_exp |-> 30]
          [] x = "nocmd" -> [args |-> <<>>, frozen_exp |-> 30]
          [] x = "nobin" -> [args |-> <<"no-such-bin">>, frozen_exp |-> 30]]
Ids == {"burn", "nocmd", "nobin", "ghost"}

\* find_bin(bin, Some(side_bin_path)): the resolved path, or None.
FindBin(bin) ==
    IF bin = "burn-cpus.sh" THEN <<"Some", "/side-bin/burn-cpus.sh">>
    ELSE <<"None">>

\* BenchKnobs: the modelled read and write bandwidth.
BenchSlow == [rbps |-> 100, wbps |-> 50]
BenchFast == [rbps |-> 200, wbps |-> 80]
Benches == {BenchSlow, BenchFast}

\* Target mappings: name -> catalog id, at most MaxTarget entries. A name the
\* pattern rejects is tried with the one id that resolves.
IdsFor(name) ==
    IF \A i \in 1..Len(name) : name[i] \in NameClass /\ Len(name) >= 1
    THEN Ids ELSE {"burn"}
Targets ==
    UNION {{t \in [S -> Ids] : \A n \in S : t[n] \in IdsFor(n)} :
              S \in {X \in SUBSET Names : Cardinality(X) <= MaxTarget}}
\* The targets of the teardown specification: one workload, there or not.
TargetsRm == {<<>>, [n \in {NameA} |-> "burn"]}

\* The targets of the frame specification: the two well-formed names, each
\* left out, mapped to the id that resolves or to one the catalog lacks.
TargetsKeep == UNION {[S -> {"burn", "ghost"}] : S \in SUBSET {NameA, NameB}}

\* SideRunner::envs: the entries that depend on the call's inputs.
Envs(bench) == <<<<"IO_RBPS", bench.rbps>>, <<"IO_WBPS", bench.wbps>>>>

\* verify_and_lookup_svc past the name check: the catalog lookup, the empty
\* command, the binary.
LookupSvc(name, id, defs) ==
    IF id \notin DOMAIN defs THEN [ok |-> FALSE, err |-> "unknown sideload ID"]
    ELSE IF Len(defs[id].args) < 1 THEN [ok |-> FALSE, err |-> "no command"]
    ELSE IF FindBin(defs[id].args[1])[1] = "None"
         THEN [ok |-> FALSE, err |-> "failed to resolve binary"]
    ELSE [ok |-> TRUE,
          spec |-> [defs[id] EXCEPT !.args[1] = FindBin(defs[id].args[1])[2]]]
\* Faulty variant: an id the catalog lacks is let through.
VerifySkipsLookup(name, id, defs) ==
    IF ~SIDE_NAME_RE(name) THEN [ok |-> FALSE, err |-> "invalid sideload name"]
    ELSE [ok |-> TRUE,
          spec |-> IF id \in DOMAIN defs THEN defs[id]
                   ELSE [args |-> <<>>, frozen_exp |-> 0]]
\* SideRunner::verify_and_lookup_svc: Ok(spec) or Err(why).
verify_and_lookup_svc(name, id, defs) ==
    IF ~SIDE_NAME_RE(name) THEN [ok |-> FALSE, err |-> "invalid sideload name"]
    ELSE LookupSvc(name, id, defs)


\* -------------------------------------------------------------------- state
VARIABLES
    sysloads,   \* SideRunner.sysloads: name -> Sysload
    sideloads,  \* SideRunner.sideloads: name -> Sideload
    sinkSys,    \* the caller's Vec<Sysload> of removed records
    sinkSide,   \* the caller's Vec<Sideload> of removed records
    dirs,       \* the scratch directories that exist on disk
    jobs,       \* the job files on disk: path -> content
    units,      \* the sideload units the external daemon has running
    pc,         \* the position of the running call
    call,       \* the running apply_* call
    dq,         \* the records whose drop is running or pending
    ret,        \* where control returns once dq is empty
    rm,         \* the running drop: its steps and really_remove_dir_all
    nextGen,    \* the identity the next created record gets
    balloon,    \* Balloon: size and svc
    bunit,      \* the state systemd holds for rd-balloon.service
    bcall,      \* the last Balloon call and what it did
    starts      \* successful starts of the balloon unit so far

runnerVars == <<sysloads, sideloads, sinkSys, sinkSide>>
diskVars == <<dirs, jobs, units>>
ctlVars == <<pc, call, dq, ret, rm, nextGen>>
balloonVars == <<balloon, bunit, bcall, starts>>
vars == <<runnerVars, diskVars, ctlVars, balloonVars>>

NoCall ==
    [kind |-> "none", target |-> <<>>, bench |-> BenchSlow,
     sink |-> FALSE, goners |-> {}, news |-> {}, result |-> "none",
     made |-> {}, before |-> <<>>, startFailed |-> {}, torn |-> <<>>]
NoRm ==
    [path |-> <<>>, elapsed |-> 0, busy |-> FALSE, wasBusy |-> FALSE,
     relAt |-> 0, last |-> "none", logged |-> 0, over |-> FALSE,
     fileTried |-> FALSE, fileErr |-> FALSE,
     stopTried |-> FALSE, stopErr |-> FALSE]
NoBCall == [op |-> "none", n |-> 0, fast |-> FALSE, created |-> FALSE,
            result |-> "none", sizeBefore |-> 0, heldBefore |-> FALSE,
            refresh |-> "none", stateBefore |-> "absent", steps |-> <<>>,
            peak |-> 0]

\* SideRunner::new and Balloon::new on a clean machine.
Init ==
    /\ sysloads = <<>>
    /\ sideloads = <<>>
    /\ sinkSys = <<>>
    /\ sinkSide = <<>>
    /\ dirs = {}
    /\ jobs = <<>>
    /\ units = {}
    /\ pc = "idle"
    /\ call = NoCall
    /\ dq = <<>>
    /\ ret = "idle"
    /\ rm = NoRm
    /\ nextGen = 1
    /\ balloon = [size |-> 0, svc |-> "None"]
    /\ bunit = "absent"
    /\ bcall = NoBCall
    /\ starts = 0

MapRemove(m, k) == [x \in DOMAIN m \ {k} |-> m[x]]
MapInsert(m, k, v) == [x \in DOMAIN m \cup {k} |-> IF x = k THEN v ELSE m[x]]

Active(kind) == IF kind = "sys" THEN sysloads ELSE sideloads

\* --------------------------------------------------- apply_sysloads/sideloads
\* Faulty variant: no name is taken for gone.
GonersNone(active_keys, target_keys) == {}
\* active_keys.difference(&target_keys)
Goners(active_keys, target_keys) == active_keys \ target_keys
\* Faulty variant: every name of the target is taken for new.
NewNamesAll(target_keys, active_keys) == target_keys
\* target_keys.difference(&active_keys)
NewNames(target_keys, active_keys) == target_keys \ active_keys

\* The head of apply_*: the two key sets and their differences. The second
\* conjunct keeps the records created within MaxCreates.
ApplyBegin(kind, target, bench, useSink) ==
    /\ pc = "idle"
    /\ (nextGen - 1) + Cardinality(NewNames(DOMAIN target, DOMAIN Active(kind)))
          <= MaxCreates
    /\ call' = [kind |-> kind, target |-> target, bench |-> bench,
                sink |-> useSink,
                goners |-> Goners(DOMAIN Active(kind), DOMAIN target),
                news |-> NewNames(DOMAIN target, DOMAIN Active(kind)),
                result |-> "running", made |-> {},
                before |-> Active(kind), startFailed |-> {}, torn |-> <<>>]
    /\ pc' = "goners"
    /\ UNCHANGED <<runnerVars, diskVars, dq, ret, rm, nextGen, balloonVars>>

\* Faulty variant: a removed record is dropped whether or not there is a sink.
DisposalAlwaysDrop(useSink) == "drop"
\* What becomes of a removed record: pushed to the sink when one was
\* supplied, dropped at the end of the `if let` otherwise.
Disposal(useSink) == IF useSink THEN "sink" ELSE "drop"

\* One iteration of the goner loop (HashSet order: any remaining goner).
RemoveGoner(g) ==
    /\ pc = "goners"
    /\ g \in call.goners
    /\ LET rec == Active(call.kind)[g] IN
       /\ IF call.kind = "sys"
          THEN /\ sysloads' = MapRemove(sysloads, g)
               /\ sinkSys' = IF Disposal(call.sink) = "sink"
                             THEN Append(sinkSys, rec) ELSE sinkSys
               /\ UNCHANGED <<sideloads, sinkSide>>
          ELSE /\ sideloads' = MapRemove(sideloads, g)
               /\ sinkSide' = IF Disposal(call.sink) = "sink"
                              THEN Append(sinkSide, rec) ELSE sinkSide
               /\ UNCHANGED <<sysloads, sinkSys>>
       /\ IF Disposal(call.sink) = "sink"
          THEN UNCHANGED <<pc, dq, ret>>
          ELSE /\ dq' = <<[kind |-> call.kind, rec |-> rec, by |-> "apply"]>>
               /\ ret' = "goners"
               /\ pc' = "drop"
    /\ call' = [call EXCEPT !.goners = @ \ {g}]
    /\ UNCHANGED <<diskVars, rm, nextGen, balloonVars>>

\* Faulty variant: the creation loop may start with goners left.
RemovalPassCut(c) == TRUE
\* The goner loop is over once every goner was visited.
RemovalPassOver(c) == c.goners = {}

GonersDone ==
    /\ pc = "goners"
    /\ RemovalPassOver(call)
    /\ pc' = "news"
    /\ UNCHANGED <<runnerVars, diskVars, call, dq, ret, rm, nextGen, balloonVars>>

\* `?` on an Err: the call returns it.
Fail ==
    /\ call' = [call EXCEPT !.result = "Err"]
    /\ pc' = "ret"

\* Faulty variant: the map is put back as the call found it.
OnErrRollback(active, before) == before
\* The active map a call returns an Err with: as it stands, nothing undone.
OnErr(active, before) == active

\* The SideRunner a failing call leaves behind.
KeepOnErr ==
    /\ sysloads' = IF call.kind = "sys" THEN OnErr(sysloads, call.before)
                   ELSE sysloads
    /\ sideloads' = IF call.kind = "side" THEN OnErr(sideloads, call.before)
                    ELSE sideloads
    /\ UNCHANGED <<sinkSys, sinkSide>>

\* Faulty variant: a failed start returns the error.
OnStartErrReturn == "return"
\* `if let Err(e) = sysload.svc.start() { warn!(...) }`: a warning, and the
\* iteration goes on to the insert.
OnStartErr == "warn"

SysFaults == {"none", "svc", "mkdir", "start"}

\* One iteration of apply_sysloads' creation loop for `name`; `fault` is the
\* step the environment lets fail.
CreateSysload(name, fault) ==
    /\ pc = "news"
    /\ call.kind = "sys"
    /\ name \in call.news
    /\ LET v == verify_and_lookup_svc(name, call.target[name], Defs)
           scr_path == ScrPathOf(SysScrPath, name)
       IN
       IF ~v.ok
       THEN /\ Fail
            /\ KeepOnErr
            /\ UNCHANGED <<diskVars, nextGen>>
       ELSE IF fault = "svc"
       THEN \* TransientService::new_sys(...)? fails
            /\ Fail
            /\ KeepOnErr
            /\ UNCHANGED <<diskVars, nextGen>>
       ELSE IF fault = "mkdir"
       THEN \* prep_scr_dir(...)? fails; svc is dropped
            /\ call' = [call EXCEPT !.result = "Err",
                                    !.made = @ \cup {sysload_svc_name(name)}]
            /\ pc' = "ret"
            /\ KeepOnErr
            /\ UNCHANGED <<diskVars, nextGen>>
       ELSE IF fault = "start" /\ OnStartErr = "return"
       THEN /\ dirs' = dirs \cup {scr_path}
            /\ call' = [call EXCEPT !.result = "Err",
                                    !.made = @ \cup {sysload_svc_name(name)},
                                    !.startFailed = @ \cup {name}]
            /\ pc' = "ret"
            /\ KeepOnErr
            /\ UNCHANGED <<jobs, units, nextGen>>
       ELSE /\ dirs' = dirs \cup {scr_path}
            /\ sysloads' = MapInsert(sysloads, name,
                  [gen |-> nextGen, scr_path |-> scr_path,
                   svc |-> [name |-> sysload_svc_name(name),
                            args |-> v.spec.args,
                            envs |-> Envs(call.bench),
                            working_dir |-> scr_path,
                            started |-> fault # "start"]])
            /\ nextGen' = nextGen + 1
            /\ call' = [call EXCEPT !.news = @ \ {name},
                                    !.made = @ \cup {sysload_svc_name(name)},
                                    !.startFailed =
                                        IF fault = "start" THEN @ \cup {name}
                                        ELSE @]
            /\ UNCHANGED <<sideloads, sinkSys, sinkSide, jobs, units, pc>>
    /\ UNCHANGED <<dq, ret, rm, balloonVars>>

SideFaults == {"none", "mkdir", "save", "unit"}

\* One iteration of apply_sideloads' creation loop for `name`.
CreateSideload(name, fault) ==
    /\ pc = "news"
    /\ call.kind = "side"
    /\ name \in call.news
    /\ LET v == verify_and_lookup_svc(name, call.target[name], Defs)
           job_path == JobPathOf(name)
           scr_path == ScrPathOf(SideScrPath, name)
           job == [id |-> name, args |-> v.spec.args,
                   envs |-> Envs(call.bench),
                   frozen_expiration |-> v.spec.frozen_exp,
                   working_dir |-> scr_path]
       IN
       IF ~v.ok
       THEN /\ Fail
            /\ KeepOnErr
            /\ UNCHANGED <<diskVars, nextGen>>
       ELSE IF fault = "mkdir"
       THEN \* prep_scr_dir(...)? fails
            /\ Fail
            /\ KeepOnErr
            /\ UNCHANGED <<diskVars, nextGen>>
       ELSE IF fault = "save"
       THEN \* jobs.save(&job_path)? fails
            /\ dirs' = dirs \cup {scr_path}
            /\ Fail
            /\ KeepOnErr
            /\ UNCHANGED <<jobs, units, nextGen>>
       ELSE IF fault = "unit"
       THEN \* systemd::Unit::new_sys(...)? fails: no Sideload is built
            /\ dirs' = dirs \cup {scr_path}
            /\ jobs' = MapInsert(jobs, job_path, <<job>>)
            /\ Fail
            /\ KeepOnErr
            /\ UNCHANGED <<units, nextGen>>
       ELSE /\ dirs' = dirs \cup {scr_path}
            /\ jobs' = MapInsert(jobs, job_path, <<job>>)
            /\ sideloads' = MapInsert(sideloads, name,
                  [gen |-> nextGen, name |-> name, scr_path |-> scr_path,
                   job_path |-> job_path, unit |-> sideload_svc_name(name)])
            /\ nextGen' = nextGen + 1
            /\ call' = [call EXCEPT !.news = @ \ {name},
                                    !.made = @ \cup {sideload_svc_name(name)}]
            /\ UNCHANGED <<sysloads, sinkSys, sinkSide, units, pc>>
    /\ UNCHANGED <<dq, ret, rm, balloonVars>>

\* The creation loop is over: Ok(()).
NewsDone ==
    /\ pc = "news"
    /\ call.news = {}
    /\ call' = [call EXCEPT !.result = "Ok"]
    /\ pc' = "ret"
    /\ UNCHANGED <<runnerVars, diskVars, dq, ret, rm, nextGen, balloonVars>>

\* The caller has the result; the call's frame is gone.
Return ==
    /\ pc = "ret"
    /\ pc' = "idle"
    /\ call' = NoCall
    /\ UNCHANGED <<runnerVars, diskVars, dq, ret, rm, nextGen, balloonVars>>


\* -------------------------------------------------- the caller and stop()
\* The caller lets its Vec of removed records go: each is dropped in turn.
DropSink(kind) ==
    /\ pc = "idle"
    /\ IF kind = "sys"
       THEN /\ sinkSys # <<>>
            /\ dq' = [i \in 1..Len(sinkSys) |->
                         [kind |-> "sys", rec |-> sinkSys[i], by |-> "sink"]]
            /\ sinkSys' = <<>>
            /\ UNCHANGED sinkSide
       ELSE /\ sinkSide # <<>>
            /\ dq' = [i \in 1..Len(sinkSide) |->
                         [kind |-> "side", rec |-> sinkSide[i], by |-> "sink"]]
            /\ sinkSide' = <<>>
            /\ UNCHANGED sinkSys
    /\ ret' = "idle"
    /\ pc' = "drop"
    /\ UNCHANGED <<sysloads, sideloads, diskVars, call, rm, nextGen, balloonVars>>

\* String's Ord: byte-wise, a proper prefix first.
AsciiOrder ==
    <<" ", "!", "-", "0", "1", "2", "3", "4", "5", "6", "7", "8", "9",
      "A", "B", "C", "D", "E", "F", "G", "H", "I", "J", "K", "L", "M",
      "N", "O", "P", "Q", "R", "S", "T", "U", "V", "W", "X", "Y", "Z", "_",
      "a", "b", "c", "d", "e", "f", "g", "h", "i", "j", "k", "l", "m",
      "n", "o", "p", "q", "r", "s", "t", "u", "v", "w", "x", "y", "z">>
Byte(c) == CHOOSE i \in 1..Len(AsciiOrder) : AsciiOrder[i] = c
StrLess(s, t) ==
    \E i \in 1..(Len(s) + 1) :
        /\ \A j \in 1..(i - 1) : j <= Len(t) /\ s[j] = t[j]
        /\ \/ i = Len(s) + 1 /\ Len(t) >= i
           \/ i <= Len(s) /\ i <= Len(t) /\ Byte(s[i]) < Byte(t[i])

\* The keys of a BTreeMap in iteration order.
RECURSIVE KeysInOrder(_)
KeysInOrder(S) ==
    IF S = {} THEN <<>>
    ELSE LET least == CHOOSE k \in S : \A o \in S \ {k} : StrLess(k, o)
         IN <<least>> \o KeysInOrder(S \ {least})

\* Faulty variant: the sideloads are forgotten as well.
StopAlsoSideloads ==
    /\ pc = "idle"
    /\ sysloads # <<>>
    /\ dq' = [i \in 1..Cardinality(DOMAIN sysloads) |->
                [kind |-> "sys", rec |-> sysloads[KeysInOrder(DOMAIN sysloads)[i]],
                 by |-> "stop"]]
    /\ sysloads' = <<>>
    /\ sideloads' = <<>>
    /\ ret' = "idle"
    /\ pc' = "drop"
    /\ UNCHANGED <<sinkSys, sinkSide, diskVars, call, rm, nextGen, balloonVars>>

\* SideRunner::stop: self.sysloads.clear() drops every Sysload in key order.
Stop ==
    /\ pc = "idle"
    /\ sysloads # <<>>
    /\ dq' = [i \in 1..Cardinality(DOMAIN sysloads) |->
                [kind |-> "sys", rec |-> sysloads[KeysInOrder(DOMAIN sysloads)[i]],
                 by |-> "stop"]]
    /\ sysloads' = <<>>
    /\ ret' = "idle"
    /\ pc' = "drop"
    /\ UNCHANGED <<sideloads, sinkSys, sinkSide, diskVars, call, rm, nextGen, balloonVars>>

\* ------------------------------------------------------------ Drop for ...
\* Faulty variant: the job file's deletion left out of the drop.
SideloadDropKeepsFile(fault) ==
    /\ pc = "drop"
    /\ dq # <<>>
    /\ Head(dq).kind = "side"
    /\ pc' = "d_stop"
    /\ UNCHANGED <<runnerVars, diskVars, call, dq, ret, rm, nextGen, balloonVars>>

\* Drop for Sideload, first statement: fs::remove_file(&self.job_path); an
\* error is logged and the drop goes on.
SideloadDropFile(fault) ==
    /\ pc = "drop"
    /\ dq # <<>>
    /\ Head(dq).kind = "side"
    /\ jobs' = IF fault \/ Head(dq).rec.job_path \notin DOMAIN jobs
               THEN jobs ELSE MapRemove(jobs, Head(dq).rec.job_path)
    /\ rm' = [rm EXCEPT !.fileTried = TRUE,
                        !.fileErr = fault \/ Head(dq).rec.job_path \notin DOMAIN jobs]
    /\ pc' = "d_stop"
    /\ UNCHANGED <<runnerVars, dirs, units, call, dq, ret, nextGen, balloonVars>>

\* Second statement: self.unit.stop_and_reset(); an error is logged.
SideloadDropStop(fault) ==
    /\ pc = "d_stop"
    /\ units' = IF fault THEN units ELSE units \ {Head(dq).rec.unit}
    /\ rm' = [rm EXCEPT !.stopTried = TRUE, !.stopErr = fault]
    /\ pc' = "d_rm"
    /\ UNCHANGED <<runnerVars, dirs, jobs, call, dq, ret, nextGen, balloonVars>>

\* really_remove_dir_all(&self.scr_path) is entered: started_at = now. A
\* concurrent writer may be holding the directory non-empty.
RmEnter(busy) ==
    /\ \/ pc = "drop" /\ dq # <<>> /\ Head(dq).kind = "sys"
       \/ pc = "d_rm"
    /\ busy => Head(dq).rec.scr_path \in dirs
    /\ rm' = [rm EXCEPT !.path = Head(dq).rec.scr_path,
                        !.busy = busy, !.wasBusy = busy]
    /\ pc' = "rm_try"
    /\ UNCHANGED <<runnerVars, diskVars, call, dq, ret, nextGen, balloonVars>>

\* What fs::remove_dir_all(path) can return.
RemoveOutcomes(path, busy) ==
    IF path \notin dirs THEN {"ENOENT"}
    ELSE IF busy THEN {"ENOTEMPTY", "EACCES"}
    ELSE {"Ok", "EACCES"}

\* Faulty variant: ENOENT is logged like any other error.
OnResultLogsEnoent(raw) ==
    CASE raw = "Ok" -> "break"
      [] raw = "ENOTEMPTY" -> "check"
      [] OTHER -> "log_break"
\* Faulty variant: ENOTEMPTY ends the loop like ENOENT.
OnResultNoRetry(raw) ==
    CASE raw = "Ok" -> "break"
      [] raw = "ENOENT" -> "break"
      [] raw = "ENOTEMPTY" -> "break"
      [] OTHER -> "log_break"
\* The two matches of the loop body: what the loop does with a result.
OnResult(raw) ==
    CASE raw = "Ok" -> "break"
      [] raw = "ENOENT" -> "break"
      [] raw = "ENOTEMPTY" -> "check"
      [] OTHER -> "log_break"

\* One removal attempt and the matches on its result.
RmTry(raw) ==
    /\ pc = "rm_try"
    /\ raw \in RemoveOutcomes(rm.path, rm.busy)
    /\ dirs' = IF raw = "Ok" THEN dirs \ {rm.path} ELSE dirs
    /\ rm' = [rm EXCEPT !.last = raw,
                        !.logged = IF OnResult(raw) = "log_break" THEN @ + 1 ELSE @]
    /\ pc' = IF OnResult(raw) = "check" THEN "rm_chk" ELSE "dropped"
    /\ UNCHANGED <<runnerVars, jobs, units, call, dq, ret, nextGen, balloonVars>>

\* Faulty variant: the deadline is never found passed.
OverBudgetNever(elapsed) == FALSE
\* Instant::now().duration_since(started_at) > Duration::from_secs(10)
OverBudget(elapsed) == elapsed > Budget

\* The deadline check after an ENOTEMPTY.
RmCheck ==
    /\ pc = "rm_chk"
    /\ IF OverBudget(rm.elapsed)
       THEN /\ rm' = [rm EXCEPT !.logged = @ + 1, !.over = TRUE]
            /\ pc' = "dropped"
       ELSE /\ pc' = "rm_try"
            /\ UNCHANGED rm
    /\ UNCHANGED <<runnerVars, diskVars, call, dq, ret, nextGen, balloonVars>>

\* The record is gone; the next pending drop, or back to the caller.
\* call.torn counts, per record, the teardowns that ended within the call.
DropEnd ==
    /\ pc = "dropped"
    /\ dq' = Tail(dq)
    /\ rm' = NoRm
    /\ pc' = IF Tail(dq) = <<>> THEN ret ELSE "drop"
    /\ call' = IF call.kind = "none" THEN call
               ELSE LET gen == Head(dq).rec.gen IN
                    [call EXCEPT !.torn = MapInsert(@, gen,
                        IF gen \in DOMAIN @ THEN @[gen] + 1 ELSE 1)]
    /\ UNCHANGED <<runnerVars, diskVars, ret, nextGen, balloonVars>>

\* ------------------------------------------------------------- environment
\* The clock advances while the loop runs.
Tick ==
    /\ pc \in {"rm_try", "rm_chk"}
    /\ rm.elapsed <= Budget
    /\ rm' = [rm EXCEPT !.elapsed = @ + TickStep]
    /\ UNCHANGED <<runnerVars, diskVars, pc, call, dq, ret, nextGen, balloonVars>>

\* The concurrent writer lets go of the directory.
WriterRelease ==
    /\ pc \in {"rm_try", "rm_chk"}
    /\ rm.busy
    /\ rm' = [rm EXCEPT !.busy = FALSE, !.relAt = rm.elapsed]
    /\ UNCHANGED <<runnerVars, diskVars, pc, call, dq, ret, nextGen, balloonVars>>

\* The sideloader daemon sees a job file and starts its unit.
DaemonStart(name) ==
    /\ pc = "idle"
    /\ JobPathOf(name) \in DOMAIN jobs
    /\ sideload_svc_name(name) \notin units
    /\ units' = units \cup {sideload_svc_name(name)}
    /\ UNCHANGED <<runnerVars, dirs, jobs, ctlVars, balloonVars>>

\* ------------------------------------------------------------------ Balloon
\* Balloon::new of a restarted agent: stop_and_reset of whatever unit
\* survived under the fixed name (a failure is a warning), then svc: None
\* and size: 0.
BalloonNew(stopFault) ==
    /\ bunit' = IF stopFault THEN bunit ELSE "absent"
    /\ balloon' = [size |-> 0, svc |-> "None"]
    /\ bcall' = [NoBCall EXCEPT !.op = "new"]
    /\ UNCHANGED <<runnerVars, diskVars, ctlVars, starts>>

\* Faulty variant: the unit's state is not looked at.
FastPathNoRefresh(cur, size, refresh, state) ==
    cur.size = size /\ cur.svc = "Some"
\* The guard of set_size's early return: the same size, a unit held, a
\* refresh that succeeds and reports Running.
FastPath(cur, size, refresh, state) ==
    /\ cur.size = size
    /\ cur.svc = "Some"
    /\ refresh = "Ok"
    /\ state = "running"

\* The size recorded when set_size returns at `size == 0`: self.size is
\* not assigned on that path.
SizeAfterZero(cur) == cur.size

\* Faulty variant: the held handle stays where it is.
TakeNothing(cur) == cur
\* self.svc.take(): the held handle, if any, leaves the Balloon and is
\* dropped at the end of the statement.
Take(cur) == [cur EXCEPT !.svc = "None"]

\* Faulty variant: the requested size is recorded before the failing step.
ErrReturnRecords(cur, size) == [cur EXCEPT !.size = size]
\* The `?` of new_sys and of start: the call returns ahead of the two
\* assignments, with the Balloon as take() left it.
ErrReturn(cur, size) == cur

\* Balloon::set_size(size) as a whole; refresh, newFault and startFault are
\* what the unit abstraction answers. bcall.peak is the largest number of
\* handles for the unit alive at once during the call.
SetSize(size, refresh, newFault, startFault) ==
    /\ starts < MaxStarts
    /\ LET base == [NoBCall EXCEPT !.op = "set_size", !.n = size,
                                   !.sizeBefore = balloon.size,
                                   !.heldBefore = (balloon.svc = "Some"),
                                   !.refresh =
                                       IF balloon.size = size /\ balloon.svc = "Some"
                                       THEN refresh ELSE "none",
                                   !.stateBefore = bunit]
           held == IF balloon.svc = "Some" THEN 1 ELSE 0
           after == Take(balloon)
           left == IF after.svc = "Some" THEN 1 ELSE 0
           \* a dropped TransientService takes its unit down
           taken == IF held > left THEN "absent" ELSE bunit
       IN
       IF FastPath(balloon, size, refresh, bunit)
       THEN /\ bcall' = [base EXCEPT !.fast = TRUE, !.result = "Ok",
                                     !.steps = <<"refresh">>, !.peak = held]
            /\ UNCHANGED <<balloon, bunit, starts>>
       ELSE IF size = 0
       THEN /\ balloon' = [after EXCEPT !.size = SizeAfterZero(after)]
            /\ bunit' = taken
            /\ bcall' = [base EXCEPT !.result = "Ok", !.steps = <<"take">>,
                                     !.peak = held]
            /\ UNCHANGED starts
       ELSE IF newFault
       THEN /\ balloon' = ErrReturn(after, size)
            /\ bunit' = taken
            /\ bcall' = [base EXCEPT !.result = "Err", !.created = TRUE,
                                     !.steps = <<"take", "new_sys">>,
                                     !.peak = held]
            /\ UNCHANGED starts
       ELSE IF startFault
       THEN /\ balloon' = ErrReturn(after, size)
            /\ bunit' = taken
            /\ bcall' = [base EXCEPT !.result = "Err", !.created = TRUE,
                                     !.steps = <<"take", "new_sys", "start">>,
                                     !.peak = left + 1]
            /\ UNCHANGED starts
       ELSE /\ balloon' = [size |-> size, svc |-> "Some"]
            /\ bunit' = "running"
            /\ starts' = starts + 1
            /\ bcall' = [base EXCEPT !.result = "Ok", !.created = TRUE,
                                     !.steps = <<"take", "new_sys", "start", "keep">>,
                                     !.peak = left + 1]
    /\ UNCHANGED <<runnerVars, diskVars, ctlVars>>

\* The balloon process dies on its own (killed, out of memory).
BalloonDies ==
    /\ bunit = "running"
    /\ bunit' = "dead"
    /\ UNCHANGED <<runnerVars, diskVars, ctlVars, balloon, bcall, starts>>

\* ------------------------------------------------------------ specification
\* The steps of a running call and of a running drop, the writer aside.
CallStep ==
    \/ \E g \in Names : RemoveGoner(g)
    \/ GonersDone
    \/ \E name \in Names, fault \in SysFaults : CreateSysload(name, fault)
    \/ \E name \in Names, fault \in SideFaults : CreateSideload(name, fault)
    \/ NewsDone
    \/ Return

DropStep ==
    \/ \E fault \in BOOLEAN : SideloadDropFile(fault)
    \/ \E fault \in BOOLEAN : SideloadDropStop(fault)
    \/ \E raw \in {"Ok", "ENOENT", "ENOTEMPTY", "EACCES"} : RmTry(raw)
    \/ DropEnd

\* The reconciler under every target, on a quiet machine: one set of
\* benchmark knobs, no concurrent writer, the sideloader daemon idle.
Next ==
    \/ \E kind \in {"sys", "side"}, target \in Targets, useSink \in BOOLEAN :
          ApplyBegin(kind, target, BenchSlow, useSink)
    \/ CallStep
    \/ \E kind \in {"sys", "side"} : DropSink(kind)
    \/ Stop
    \/ RmEnter(FALSE)
    \/ DropStep

Spec == Init /\ [][Next]_vars

\* One workload name on a live machine: the clock, a concurrent writer, the
\* sideloader daemon and changing benchmark knobs.
NextRm ==
    \/ \E kind \in {"sys", "side"}, target \in TargetsRm, bench \in Benches,
          useSink \in BOOLEAN : ApplyBegin(kind, target, bench, useSink)
    \/ CallStep
    \/ \E kind \in {"sys", "side"} : DropSink(kind)
    \/ \E busy \in BOOLEAN : RmEnter(busy)
    \/ DropStep
    \/ RmCheck
    \/ Tick
    \/ WriterRelease
    \/ Stop
    \/ \E name \in Names : DaemonStart(name)

SpecRm == Init /\ [][NextRm]_vars

\* The thread runs and the clock advances; the writer owes nothing.
LiveRm ==
    /\ SpecRm
    /\ WF_vars(\E raw \in {"Ok", "ENOENT", "ENOTEMPTY", "EACCES"} : RmTry(raw))
    /\ WF_vars(RmCheck)
    /\ WF_vars(Tick)

\* Two workload names under changing catalog ids and benchmark knobs, with
\* the sideloader daemon at work and every removed record dropped in place.
NextKeep ==
    \/ \E kind \in {"sys", "side"}, target \in TargetsKeep, bench \in Benches :
          ApplyBegin(kind, target, bench, FALSE)
    \/ CallStep
    \/ RmEnter(FALSE)
    \/ DropStep
    \/ \E name \in Names : DaemonStart(name)

SpecKeep == Init /\ [][NextKeep]_vars

\* The balloon under every size, answer of the unit abstraction and death.
NextBalloon ==
    \/ \E stopFault \in BOOLEAN : BalloonNew(stopFault)
    \/ \E size \in 0..MaxSize, refresh \in {"Ok", "Err"},
          newFault \in BOOLEAN, startFault \in BOOLEAN :
          SetSize(size, refresh, newFault, startFault)
    \/ BalloonDies

SpecBalloon == Init /\ [][NextBalloon]_vars

\* ------------------------------------------------------------------- claims
InCall == call.kind # "none"
\* The names the running call found new, and found gone, at its head.
NewAtHead == DOMAIN call.target \ DOMAIN call.before
GoneAtHead == DOMAIN call.before \ DOMAIN call.target
KeptAtHead == DOMAIN call.before \cap DOMAIN call.target
Returned(result) == pc = "ret" /\ call.result = result

\* C1: when an apply_sysloads or apply_sideloads call returns Ok, the key set
\* of the active map equals the key set of the target it was given, whatever
\* the map held before and whether or not a sink was supplied.
C1_Convergence ==
    Returned("Ok") => DOMAIN Active(call.kind) = DOMAIN call.target

\* A call with a sink that returned Ok after removing one name and adding
\* another.
C1_Witness ==
    /\ Returned("Ok")
    /\ call.sink
    /\ GoneAtHead # {}
    /\ NewAtHead # {}

\* C2: a call whose target holds a not-yet-active name mapped to an id the
\* catalog lacks never returns Ok and returns Err, never inserts that name,
\* and keeps every name that was active and in the target, with the record
\* it had.
C2_UnknownIdFails ==
    \A n \in Names :
        (InCall /\ n \in NewAtHead /\ call.target[n] \notin DOMAIN Defs) =>
            /\ call.result # "Ok"
            /\ pc = "ret" => call.result = "Err"
            /\ n \notin DOMAIN Active(call.kind)
            /\ \A k \in KeptAtHead :
                  /\ k \in DOMAIN Active(call.kind)
                  /\ Active(call.kind)[k] = call.before[k]

\* A call returned Err for a new name with an unknown id while another name
\* was active and in the target.
C2_Witness ==
    /\ Returned("Err")
    /\ KeptAtHead # {}
    /\ \E n \in NewAtHead : call.target[n] \notin DOMAIN Defs

\* What "^[A-Za-z0-9_-]+$" rejects: the empty name, and any name with a
\* character outside the class.
PatternRejects(name) ==
    \/ Len(name) = 0
    \/ \E i \in 1..Len(name) :
          name[i] \notin Lower \cup Upper \cup Digit \cup {"_", "-"}

\* C3: for a name the pattern rejects there is never a scratch directory, a
\* job file, a unit or unit handle, nor a record, and a call that finds such
\* a name new does not return Ok.
C3_BadNameCreatesNothing ==
    \A n \in Names :
        PatternRejects(n) =>
            /\ ScrPathOf(SysScrPath, n) \notin dirs
            /\ ScrPathOf(SideScrPath, n) \notin dirs
            /\ JobPathOf(n) \notin DOMAIN jobs
            /\ sysload_svc_name(n) \notin call.made
            /\ sideload_svc_name(n) \notin call.made
            /\ sideload_svc_name(n) \notin units
            /\ n \notin DOMAIN sysloads \cup DOMAIN sideloads
            /\ (InCall /\ n \in NewAtHead) => call.result # "Ok"

\* A call returned Err at a rejected name after it had created another
\* workload.
C3_Witness ==
    /\ Returned("Err")
    /\ \E n \in call.news : PatternRejects(n)
    /\ DOMAIN Active(call.kind) \ DOMAIN call.before # {}

\* The records held in memory: in the active map or in the caller's sink.
SeqRange(q) == {q[i] : i \in 1..Len(q)}
HeldSysloads == {sysloads[n] : n \in DOMAIN sysloads} \cup SeqRange(sinkSys)
HeldSideloads == {sideloads[n] : n \in DOMAIN sideloads} \cup SeqRange(sinkSide)

\* C4: between operations a scratch directory <root>/<name> exists exactly
\* when a record of that kind with that scratch path is held.
C4_ScratchDirIffRecord ==
    pc = "idle" =>
        \A n \in Names :
            /\ ScrPathOf(SysScrPath, n) \in dirs
                  <=> \E r \in HeldSysloads : r.scr_path = ScrPathOf(SysScrPath, n)
            /\ ScrPathOf(SideScrPath, n) \in dirs
                  <=> \E r \in HeldSideloads : r.scr_path = ScrPathOf(SideScrPath, n)

\* C5: between operations the job file <jobs-dir>/<name>.json exists exactly
\* when a Sideload record with that job path is held.
C5_JobFileIffRecord ==
    pc = "idle" =>
        \A n \in Names :
            JobPathOf(n) \in DOMAIN jobs
                <=> \E r \in HeldSideloads : r.job_path = JobPathOf(n)

\* The drop of a record has just run to its end.
Dropped == pc = "dropped"

\* C6 as stated: once a record is dropped its scratch directory is gone,
\* when no attempt failed other than with ENOTEMPTY and the writer, if there
\* was one, let go no later than 10 seconds after the first attempt.
C6_GoneAfterDrop ==
    (Dropped /\ rm.last # "EACCES" /\ ~rm.busy /\ rm.relAt <= Budget)
        => rm.path \notin dirs

\* C6 amended: once a record is dropped its scratch directory is gone, when
\* no attempt failed other than with ENOTEMPTY and no deadline check that
\* followed an ENOTEMPTY read more than 10 seconds.
C6_GoneUnlessGaveUp ==
    (Dropped /\ rm.last # "EACCES" /\ ~rm.over) => rm.path \notin dirs

\* A record taken from the sink was dropped while a writer held its
\* directory for some seconds; a later attempt removed the directory.
C6_Witness ==
    /\ Dropped
    /\ ret = "idle"
    /\ rm.wasBusy /\ ~rm.busy /\ rm.relAt > 0
    /\ rm.last = "Ok"
    /\ rm.path \notin dirs

InLoop == pc \in {"rm_try", "rm_chk"}

\* C7: with the thread running and the clock advancing, a started
\* really_remove_dir_all comes to its end whatever the removal call answers,
\* a deadline check that reads more than 10 seconds is the loop's last step,
\* and the loop's end hands control on without touching the call's result.
C7_LoopTerminates ==
    /\ InLoop ~> Dropped
    /\ [][(pc = "rm_chk" /\ rm.elapsed > Budget) => pc' \in {"rm_chk", "dropped"}]_vars
    /\ [][InLoop => call' = call]_vars

\* The loop ended on the deadline with the writer still holding on.
C7_Witness == Dropped /\ rm.over /\ rm.busy /\ rm.last = "ENOTEMPTY"

SideDrop == dq # <<>> /\ Head(dq).kind = "side"

\* C8: in the drop of a Sideload the job file's deletion is attempted before
\* the unit's stop-and-reset, and both before the directory purge, whether or
\* not they fail; while the purge runs the job file is present only if its
\* deletion was attempted and failed.
C8_TeardownOrder ==
    SideDrop =>
        /\ pc = "drop" => ~rm.fileTried /\ ~rm.stopTried
        /\ pc = "d_stop" => rm.fileTried /\ ~rm.stopTried
        /\ pc \in {"d_rm", "rm_try", "rm_chk", "dropped"} =>
              rm.fileTried /\ rm.stopTried
        /\ pc \in {"drop", "d_stop", "d_rm"} => rm.last = "none"
        /\ (pc \in {"rm_try", "rm_chk", "dropped"}
              /\ Head(dq).rec.job_path \in DOMAIN jobs) => rm.fileErr

\* The purge removed the directory although the deletion and the stop had
\* both failed.
C8_Witness ==
    /\ SideDrop
    /\ Dropped
    /\ rm.fileErr /\ Head(dq).rec.job_path \in DOMAIN jobs
    /\ rm.stopErr
    /\ rm.last = "Ok"

\* A creation step of the running call has begun: a new name was handled or
\* the call failed at one.
CreationBegun == InCall /\ (call.news # NewAtHead \/ call.result = "Err")

\* C9: once a creation step of a call has begun, every goner of that call is
\* out of the active map and no teardown is running or pending.
C9_RemovalsFirst ==
    (pc = "news" \/ CreationBegun) =>
        /\ call.goners = {}
        /\ GoneAtHead \cap DOMAIN Active(call.kind) = {}
        /\ dq = <<>>
        /\ call.sink => \A g \in GoneAtHead :
              call.before[g] \in (IF call.kind = "sys" THEN SeqRange(sinkSys)
                                  ELSE SeqRange(sinkSide))

\* A call without a sink tore down a goner and then created a new name.
C9_Witness ==
    /\ Returned("Ok")
    /\ ~call.sink
    /\ GoneAtHead # {}
    /\ NewAtHead # {}

\* The early return of the last set_size, read off the state it found.
FoundRunning ==
    /\ bcall.n = bcall.sizeBefore
    /\ bcall.heldBefore
    /\ bcall.refresh = "Ok"
    /\ bcall.stateBefore = "running"
SkippedAndOk == "new_sys" \notin SeqRange(bcall.steps) /\ bcall.result = "Ok"

\* C10 as stated: set_size(n) skips unit creation and returns Ok exactly when
\* n is the recorded size, a unit is held and a successful refresh reports it
\* Running.
C10_SkipsExactlyWhenRunning ==
    bcall.op = "set_size" => (SkippedAndOk <=> FoundRunning)

\* C10 amended: for n > 0, set_size(n) skips unit creation and returns Ok
\* exactly when n is the recorded size, a unit is held and a successful
\* refresh reports it Running, and then it changes nothing; otherwise it
\* discards the old unit first, constructs a new one, and on Ok holds a
\* started unit with n recorded.
C10_SkipsExactlyWhenRunningNonZero ==
    (bcall.op = "set_size" /\ bcall.n > 0) =>
        /\ SkippedAndOk <=> FoundRunning
        /\ FoundRunning =>
              /\ bcall.steps = <<"refresh">>
              /\ balloon = [size |-> bcall.sizeBefore, svc |-> "Some"]
        /\ ~FoundRunning =>
              /\ Len(bcall.steps) >= 2
              /\ bcall.steps[1] = "take" /\ bcall.steps[2] = "new_sys"
              /\ bcall.result = "Ok" =>
                    /\ bcall.steps = <<"take", "new_sys", "start", "keep">>
                    /\ balloon = [size |-> bcall.n, svc |-> "Some"]

\* set_size(N) found the held unit dead and replaced it with a started one.
C10_Witness ==
    /\ bcall.op = "set_size"
    /\ bcall.n > 0
    /\ bcall.n = bcall.sizeBefore
    /\ bcall.heldBefore
    /\ bcall.refresh = "Ok"
    /\ bcall.stateBefore = "dead"
    /\ bcall.result = "Ok"
    /\ bunit = "running"

\* C11: after set_size(0) has returned no unit is held, none was constructed
\* and the recorded size is 0.
C11_ZeroRecordsZero ==
    (bcall.op = "set_size" /\ bcall.n = 0) =>
        /\ bcall.result = "Ok"
        /\ balloon.svc = "None"
        /\ "new_sys" \notin SeqRange(bcall.steps)
        /\ balloon.size = 0

\* C12: the Balloon holds at most one handle for its unit at any time: a
\* set_size that constructs a unit has let the held one go first, whether or
\* not the construction or the start then fails, and only a started unit is
\* kept.
C12_AtMostOneUnit ==
    /\ balloon.svc \in {"None", "Some"}
    /\ bcall.op = "set_size" =>
          /\ bcall.peak <= 1
          /\ "new_sys" \in SeqRange(bcall.steps) => bcall.steps[1] = "take"
          /\ (bcall.result = "Err" \/ bcall.n = 0) => balloon.svc = "None"
    /\ bcall.op = "new" => balloon.svc = "None"

\* set_size replaced a held unit of another size with a started one.
C12_Witness ==
    /\ bcall.op = "set_size"
    /\ bcall.heldBefore
    /\ bcall.n # bcall.sizeBefore
    /\ bcall.n > 0
    /\ bcall.result = "Ok"
    /\ balloon.svc = "Some"

\* C13: a set_size(n) that fails at construction or at start returns Err
\* with n > 0, leaves the recorded size as it was before the call and holds
\* no unit, and a set_size that follows a state with no unit held is never
\* the early return.
C13_FailureRecordsNothing ==
    /\ [](bcall.op = "set_size" /\ bcall.result = "Err" =>
            /\ bcall.n > 0
            /\ Len(bcall.steps) \in {2, 3}
            /\ balloon.size = bcall.sizeBefore
            /\ balloon.svc = "None")
    /\ [][(balloon.svc = "None" /\ bcall'.op = "set_size" /\ bcall' # bcall)
            => ~bcall'.fast]_vars

\* set_size(n) failed at start with another size recorded and a unit held.
C13_Witness ==
    /\ bcall.op = "set_size"
    /\ bcall.result = "Err"
    /\ bcall.steps = <<"take", "new_sys", "start">>
    /\ bcall.heldBefore
    /\ bcall.sizeBefore # bcall.n
    /\ balloon.size = bcall.sizeBefore

\* C14: in apply_sysloads a new name whose unit failed to start is in the
\* active map all the same, with its record, and is done with; if the call
\* then returns an error, it is for another name, one it did not insert.
C14_StartFailureNotFatal ==
    (InCall /\ call.kind = "sys") =>
        \A n \in call.startFailed :
            /\ n \in DOMAIN sysloads
            /\ ~sysloads[n].svc.started
            /\ sysloads[n].scr_path \in dirs
            /\ n \notin call.news
            /\ call.result = "Err" =>
                  \E m \in call.news : m # n /\ m \notin DOMAIN sysloads

\* A call returned Ok with two new sysloads, neither of which started.
C14_Witness ==
    /\ Returned("Ok")
    /\ call.kind = "sys"
    /\ Cardinality(call.startFailed) = 2
    /\ call.startFailed \subseteq DOMAIN sysloads

Count(q, r) == Cardinality({i \in 1..Len(q) : q[i] = r})
Sink(kind) == IF kind = "sys" THEN sinkSys ELSE sinkSide
TornCount(gen) == IF gen \in DOMAIN call.torn THEN call.torn[gen] ELSE 0

\* C16: when a call returns Err, the active key set is the names that were
\* active and in the target plus the new names handled before the failure;
\* the kept names have the record they had, and every goner is out of the
\* map, in the sink or torn down.
C16_NoRollback ==
    Returned("Err") =>
        /\ DOMAIN Active(call.kind) = KeptAtHead \cup (NewAtHead \ call.news)
        /\ \A k \in KeptAtHead : Active(call.kind)[k] = call.before[k]
        /\ \A g \in GoneAtHead :
              /\ g \notin DOMAIN Active(call.kind)
              /\ IF call.sink THEN Count(Sink(call.kind), call.before[g]) = 1
                 ELSE TornCount(call.before[g].gen) = 1

\* A call without a sink tore down one name, kept none and failed at a new
\* one.
C16_Witness ==
    /\ Returned("Err")
    /\ ~call.sink
    /\ GoneAtHead # {}
    /\ \A g \in GoneAtHead : TornCount(call.before[g].gen) = 1
    /\ call.news # {}
    /\ DOMAIN Active(call.kind) = {}

\* C18: with a sink, every goner removed so far is in the sink exactly once
\* and no teardown runs or has run within the call; without a sink no goner
\* reaches the sink and each removed goner's teardown is running or has run,
\* exactly once.
C18_DeferredDisposal ==
    InCall =>
        /\ call.sink =>
              dq = <<>> /\ pc \in {"goners", "news", "ret"} /\ call.torn = <<>>
        /\ \A g \in GoneAtHead \ call.goners :
              LET r == call.before[g]
                  pending == Count([i \in 1..Len(dq) |-> dq[i].rec], r)
              IN IF call.sink
                 THEN Count(Sink(call.kind), r) = 1
                 ELSE /\ Count(Sink(call.kind), r) = 0
                      /\ TornCount(r.gen) + pending = 1

\* A call with a sink returned Ok with its two goners pushed.
C18_Witness ==
    /\ Returned("Ok")
    /\ call.sink
    /\ Cardinality(GoneAtHead) = 2
    /\ \A g \in GoneAtHead : Count(Sink(call.kind), call.before[g]) = 1

\* C19: when the drop of a record from the sink has run, every active
\* workload of that kind still has its scratch directory, and every active
\* sideload its job file.
C19_SinkDropSparesActive ==
    (Dropped /\ Head(dq).by = "sink") =>
        /\ \A n \in DOMAIN sysloads : sysloads[n].scr_path \in dirs
        /\ \A n \in DOMAIN sideloads :
              /\ sideloads[n].scr_path \in dirs
              /\ sideloads[n].job_path \in DOMAIN jobs

\* C17: really_remove_dir_all makes a further attempt only after an
\* ENOTEMPTY and a deadline check that read no more than 10 seconds; Ok and
\* ENOENT end the loop with nothing logged, any other error ends it at once
\* with one error logged, and the deadline ends it with one error logged.
C17_RetryOnlyOnNotEmpty ==
    [][/\ (pc = "rm_try" /\ pc' # "rm_try") =>
             /\ rm'.last \in {"Ok", "ENOENT", "ENOTEMPTY", "EACCES"}
             /\ pc' = (IF rm'.last = "ENOTEMPTY" THEN "rm_chk" ELSE "dropped")
             /\ rm'.last \in {"Ok", "ENOENT", "ENOTEMPTY"} => rm'.logged = rm.logged
             /\ rm'.last = "EACCES" => rm'.logged = rm.logged + 1
             /\ rm'.last = "ENOENT" => rm.path \notin dirs /\ dirs' = dirs
       /\ (pc = "rm_chk" /\ pc' # "rm_chk") =>
             /\ rm.last = "ENOTEMPTY"
             /\ pc' = (IF rm.elapsed > Budget THEN "dropped" ELSE "rm_try")
             /\ rm'.logged = (IF rm.elapsed > Budget THEN 1 ELSE 0)
       /\ pc' = "rm_try" => pc \in {"drop", "d_rm", "rm_try", "rm_chk"}
       /\ pc' = "dropped" =>
             rm'.logged = (IF rm'.last \in {"Ok", "ENOENT"} THEN 0 ELSE 1)
      ]_vars

\* The teardown of a record found its directory gone already and ended with
\* nothing logged.
C17_Witness ==
    /\ Dropped
    /\ rm.last = "ENOENT"
    /\ rm.logged = 0
    /\ rm.path \notin dirs

\* The scratch directories of sideloads on disk.
SideDirs == {d \in dirs : \E n \in Names : d = ScrPathOf(SideScrPath, n)}
StopRuns == dq # <<>> /\ Head(dq).by = "stop"

\* C20: stop empties the sysload map and hands every one of its records to
\* its teardown, which runs the directory purge for each; from stop until the
\* last teardown has ended the sideload map, the job files, the units and
\* the sideloads' scratch directories stay as they were; an apply_sysloads
\* that finds the map empty takes every name of its target as new.
C20_StopClearsSysloadsOnly ==
    [][/\ (pc = "idle" /\ dq' # <<>> /\ Head(dq').by = "stop") =>
             /\ sysloads' = <<>>
             /\ Len(dq') = Cardinality(DOMAIN sysloads)
             /\ {dq'[i].rec : i \in 1..Len(dq')}
                   = {sysloads[n] : n \in DOMAIN sysloads}
             /\ sideloads' = sideloads
             /\ <<dirs, jobs, units>>' = <<dirs, jobs, units>>
       /\ StopRuns =>
             /\ sysloads' = <<>>
             /\ sideloads' = sideloads
             /\ jobs' = jobs /\ units' = units /\ SideDirs' = SideDirs
             /\ (pc = "dropped" /\ pc' # "dropped") =>
                   rm.path = Head(dq).rec.scr_path /\ rm.last # "none"
       /\ (pc = "idle" /\ sysloads = <<>> /\ call'.kind = "sys") =>
             call'.news = DOMAIN call'.target
      ]_vars

\* stop tore down the one sysload while a sideload was active with its job
\* file on disk and its unit running.
C20_Witness ==
    /\ Dropped
    /\ StopRuns
    /\ rm.last = "Ok"
    /\ sysloads = <<>>
    /\ sideloads # <<>>
    /\ jobs # <<>>
    /\ units # {}

\* What a workload of the kind and name has outside its record: its scratch
\* directory, its job file with its content, its unit.
KeptRes(kind, k) ==
    <<ScrPathOf(IF kind = "sys" THEN SysScrPath ELSE SideScrPath, k) \in dirs,
      IF kind = "side" /\ JobPathOf(k) \in DOMAIN jobs
      THEN <<jobs[JobPathOf(k)]>> ELSE <<>>,
      kind = "side" /\ sideload_svc_name(k) \in units>>

\* C15: no step of an apply call, its first included, changes the record,
\* the scratch directory, the job file or the unit of a name the call found
\* both active and in its target; the record is the one the call found,
\* with the command and the environment of its creation.
C15_KeptUntouched ==
    [][\A kind \in {"sys", "side"} :
          call'.kind = kind =>
              \A k \in DOMAIN call'.before \cap DOMAIN call'.target :
                  /\ k \in DOMAIN Active(kind) /\ k \in DOMAIN Active(kind)'
                  /\ Active(kind)'[k] = Active(kind)[k]
                  /\ Active(kind)'[k] = call'.before[k]
                  /\ KeptRes(kind, k)' = KeptRes(kind, k)
      ]_vars

\* A call returned Ok after tearing down one sysload and keeping another
\* whose id the catalog now lacks and whose environment was built from
\* other benchmark knobs.
C15_Witness ==
    /\ Returned("Ok")
    /\ call.kind = "sys"
    /\ ~call.sink
    /\ GoneAtHead # {}
    /\ \E k \in KeptAtHead :
          /\ call.target[k] = "ghost"
          /\ sysloads[k].svc.envs # Envs(call.bench)
          /\ sysloads[k] = call.before[k]

====
